---- MODULE Spec2Model ----
(***************************************************************************)
(* x402chainpay: the simulated payment server (src/server/index.ts) and    *)
(* the browser's wallet connector (src/client/src/contexts/                *)
(* WalletContext.tsx).  The two do not share state: the server's actions   *)
(* leave the connector's variables alone, and the connector's the server's.*)
(*                                                                         *)
(* The server keeps two in-memory collections: the Map `sessions` of       *)
(* issued access grants and the array `payments`, the bounded ledger.      *)
(* Every route handler is a JavaScript callback; what follows the single   *)
(* `await` of a pay handler, and the whole of every GET handler, runs to   *)
(* completion on the event loop, so each handler is one action.            *)
(*                                                                         *)
(* Time is the millisecond clock read by `new Date()`, counted from the    *)
(* start of the model.  A Date is modelled by its getTime() value.         *)
(***************************************************************************)
EXTENDS Integers, Sequences, FiniteSets

VARIABLES
    sessions,   \* the Map `sessions`, as the sequence of its values in insertion order
    payments,   \* the array `payments`
    now,        \* the clock: what `new Date().getTime()` returns
    inflight,   \* GET /api/session/:id requests received and not yet handled, per id
    resp,       \* the response to the request handled last
    recorded,   \* history: every entry ever passed to recordPayment, in call order
    tally,      \* history: per id, how many validations ended in each outcome, and
                \* Peak, the largest number of requests that were in flight at once
    events      \* history: how many requests were received and clock advances made

vars == <<sessions, payments, now, inflight, resp, recorded, tally, events>>

(***************************************************************************)
(* The wallet connector, WalletProvider of WalletContext.tsx.  Its five    *)
(* useState cells are five variables.  The other variables are the page    *)
(* around them: what the wallet extensions injected, whether the component *)
(* is mounted, and where each asynchronous call stands at its await.       *)
(***************************************************************************)
VARIABLES
    ethereum,       \* window.ethereum, as the extensions injected it
    mounted,        \* whether the effects of WalletProvider have run since the page loaded
    isConnected,    \* useState(false)
    address,        \* useState<string | null>(null)
    walletClient,   \* useState<WalletClient | null>(null)
    error,          \* useState<string | null>(null)
    isConnecting,   \* useState(false)
    check,          \* the checkConnection() call of the mount effect: where it stands
    attempts,       \* the connectWallet() calls that have not returned: where each stands
    handlerAddress, \* the `address` the subscribed handleAccountsChanged closed over
    verified,       \* history: whether the binding in force was made by a call that
                    \* had read the chain id and found or made it the expected one
    reloading       \* window.location.reload() was called and the document it was
                    \* called in has not been unloaded yet

wvars == <<ethereum, mounted, isConnected, address, walletClient, error, isConnecting,
           check, attempts, handlerAddress, verified, reloading>>

allvars == <<vars, wvars>>

(***************************************************************************)
(* Bounds of the model.                                                    *)
(***************************************************************************)
MaxEvents == 4          \* pay requests, validation requests and clock advances in one behaviour of Spec
LedgerPrefix == 99      \* purchases already made in the initial state of SpecLedger
LedgerBurst == 3        \* pay requests and clock advances in one behaviour of SpecLedger
MaxDrift == 1           \* milliseconds the clock can move while one GET /api/sessions handler runs
MaxConnects == 2        \* connectWallet() calls that can be in progress at once in SpecWallet

(***************************************************************************)
(* Program constants.                                                      *)
(***************************************************************************)
MAX_PAYMENT_HISTORY == 100
SESSION_LIFETIME_MS == 24 * 60 * 60 * 1000
ONETIME_LIFETIME_MS == 5 * 60 * 1000
RECENT_LIMIT == 25
\* amountUsd is kept in tenths of a dollar: 1 is 10 tenths, 0.1 is 1 tenth.
SESSION_AMOUNT_TENTHS == 10
ONETIME_AMOUNT_TENTHS == 1

\* The JavaScript value `undefined` of an optional string property.
Undefined == "undefined"

\* The JavaScript value `null` of a `string | null` cell.
Null == "null"

\* The value null of the walletClient cell, and a client made by createWalletClient.
NoClient == [account |-> Null, transport |-> Null]
WalletClient(account, provider) == [account |-> account, transport |-> provider]

\* The value null of the error cell; a message is a non-empty tuple of strings.
NoError == <<>>

(***************************************************************************)
(* window.ethereum.  A provider is named by a string.  window.ethereum is  *)
(* undefined, one provider object, one provider object that carries a      *)
(* `providers` array, or an array of providers (src/client/src/types/      *)
(* window.d.ts).                                                           *)
(***************************************************************************)
EthUndefined == [kind |-> "undefined", self |-> Null, hasProviders |-> FALSE, list |-> <<>>]
EthObject(p) == [kind |-> "object", self |-> p, hasProviders |-> FALSE, list |-> <<>>]
EthWithProviders(p, ps) == [kind |-> "object", self |-> p, hasProviders |-> TRUE, list |-> ps]
EthArray(ps) == [kind |-> "array", self |-> Null, hasProviders |-> FALSE, list |-> ps]

\* No connectWallet() call, and the checkConnection() call not yet made.
NoAttempt == [pc |-> "none", provider |-> Null, accounts |-> <<>>, sent |-> <<>>]
NoCheck == [pc |-> "none", provider |-> Null]

\* The page as the browser has loaded it, before the effects of WalletProvider ran.
PageLoaded ==
    /\ mounted = FALSE
    /\ isConnected = FALSE
    /\ address = Null
    /\ walletClient = NoClient
    /\ error = NoError
    /\ isConnecting = FALSE
    /\ check = NoCheck
    /\ attempts = [i \in 1..MaxConnects |-> NoAttempt]
    /\ handlerAddress = Null
    /\ verified = FALSE
    /\ reloading = FALSE

\* No wallet extension and no visitor: the page while only the server is observed.
BrowserClosed == ethereum = EthUndefined /\ PageLoaded

(***************************************************************************)
(* Inputs.                                                                 *)
(***************************************************************************)
\* Session ids: the values uuidv4() can return and a client can ask about.
Ids == 1..MaxEvents
LedgerIds == 1..(LedgerPrefix + LedgerBurst)

\* Request bodies as the client sends them: text that is not JSON, the JSON
\* value null, and JSON objects with some of the optional properties.
Malformed == [kind |-> "malformed"]
JsonNull == [kind |-> "null"]
JsonObject(w, t, m) == [kind |-> "object", walletAddress |-> w, transactionHash |-> t, metadata |-> m]
RawBodies ==
    { Malformed, JsonNull, JsonObject("0xABC", "0xT1", "memo") }

\* How far the clock moves in one step.
Steps == {1, ONETIME_LIFETIME_MS, SESSION_LIFETIME_MS}

(***************************************************************************)
(* Helpers of the runtime.                                                 *)
(***************************************************************************)
\* Map.prototype.has / get / set on the insertion-ordered sequence of values.
MapHas(m, id) == \E i \in 1..Len(m) : m[i].id = id
MapGet(m, id) == m[CHOOSE i \in 1..Len(m) : m[i].id = id]
MapSet(m, id, s) ==
    IF MapHas(m, id)
    THEN [i \in 1..Len(m) |-> IF m[i].id = id THEN s ELSE m[i]]
    ELSE Append(m, s)
MapKeys(m) == {m[i].id : i \in 1..Len(m)}

\* uuidv4(): an identifier no stored session has (collisions are not modelled);
\* the least such one of the pool.
uuidv4(m, pool) == CHOOSE id \in pool \ MapKeys(m) : \A j \in pool \ MapKeys(m) : id <= j

\* Date.prototype.toISOString(): a rendering of the timestamp that loses nothing
\* and keeps the order; it is a string, never a number.
toISOString(t) == [iso |-> t]

\* c.req.json() followed by the catch of parsePaymentRequest: text that does
\* not parse gives the fallback, anything that parses is returned as it is.
parsePaymentRequest(raw, fallback) ==
    IF raw.kind = "malformed" THEN fallback ELSE raw

EmptyObject == JsonObject(Undefined, Undefined, Undefined)

\* Reading a property of the parsed body throws a TypeError when it is null.
Throws(body) == body.kind = "null"

(***************************************************************************)
(* recordPayment                                                           *)
(***************************************************************************)
\* Mutant: the oldest entry is dropped as soon as the cap is reached.
recordPaymentEager(ps, entry) ==
    LET pushed == Append(ps, entry)
    IN  IF Len(pushed) >= MAX_PAYMENT_HISTORY THEN Tail(pushed) ELSE pushed

\* Mutant: the entry is put at the front, where the next eviction takes it.
recordPaymentUnshift(ps, entry) ==
    LET pushed == <<entry>> \o ps
    IN  IF Len(pushed) > MAX_PAYMENT_HISTORY THEN Tail(pushed) ELSE pushed

recordPayment(ps, entry) ==
    LET pushed == Append(ps, entry)
    IN  IF Len(pushed) > MAX_PAYMENT_HISTORY THEN Tail(pushed) ELSE pushed

(***************************************************************************)
(* Responses.  A response is [op, status, body]; `body` is the object      *)
(* handed to c.json().                                                     *)
(***************************************************************************)
InternalServerError(op) == [op |-> op, status |-> 500, body |-> [text |-> "Internal Server Error"]]

NoResponse == [op |-> "none", status |-> 0, body |-> [text |-> ""]]

(***************************************************************************)
(* POST /api/pay/session                                                   *)
(***************************************************************************)
\* Mutant: the lifetime of the other tier.
SessionExpiryShort(t) == t + ONETIME_LIFETIME_MS

SessionExpiry(t) == t + SESSION_LIFETIME_MS

paySession(m, ps, raw, t, pool) ==
    LET body == parsePaymentRequest(raw, EmptyObject)
        sessionId == uuidv4(m, pool)
        expiresAt == SessionExpiry(t)
    IN  IF Throws(body)
        THEN [sessions |-> m, payments |-> ps, entries |-> <<>>, resp |-> InternalServerError("pay/session")]
        ELSE
        LET session == [id |-> sessionId, createdAt |-> t, expiresAt |-> expiresAt,
                        type |-> "24hour",
                        walletAddress |-> body.walletAddress,
                        transactionHash |-> body.transactionHash]
            entry == [id |-> sessionId, type |-> "24hour",
                      amountUsdTenths |-> SESSION_AMOUNT_TENTHS,
                      walletAddress |-> body.walletAddress,
                      transactionHash |-> body.transactionHash,
                      metadata |-> body.metadata,
                      createdAt |-> t]
        IN  [sessions |-> MapSet(m, sessionId, session),
             payments |-> recordPayment(ps, entry),
             entries |-> <<entry>>,
             resp |-> [op |-> "pay/session", status |-> 200,
                       body |-> [success |-> TRUE,
                                 sessionId |-> sessionId,
                                 message |-> "24-hour access granted!",
                                 session |-> [id |-> sessionId, type |-> "24hour",
                                              createdAt |-> toISOString(t),
                                              expiresAt |-> toISOString(expiresAt),
                                              validFor |-> "24 hours",
                                              walletAddress |-> session.walletAddress,
                                              transactionHash |-> session.transactionHash],
                                 payment |-> [amountUsdTenths |-> SESSION_AMOUNT_TENTHS,
                                              walletAddress |-> body.walletAddress,
                                              transactionHash |-> body.transactionHash,
                                              metadata |-> body.metadata]]]]

(***************************************************************************)
(* POST /api/pay/onetime                                                   *)
(***************************************************************************)
OnetimeExpiry(t) == t + ONETIME_LIFETIME_MS

payOnetime(m, ps, raw, t, pool) ==
    LET body == parsePaymentRequest(raw, EmptyObject)
        sessionId == uuidv4(m, pool)
    IN  IF Throws(body)
        THEN [sessions |-> m, payments |-> ps, entries |-> <<>>, resp |-> InternalServerError("pay/onetime")]
        ELSE
        LET session == [id |-> sessionId, createdAt |-> t, expiresAt |-> OnetimeExpiry(t),
                        type |-> "onetime",
                        used |-> FALSE,
                        walletAddress |-> body.walletAddress,
                        transactionHash |-> body.transactionHash]
            entry == [id |-> sessionId, type |-> "onetime",
                      amountUsdTenths |-> ONETIME_AMOUNT_TENTHS,
                      walletAddress |-> body.walletAddress,
                      transactionHash |-> body.transactionHash,
                      metadata |-> body.metadata,
                      createdAt |-> t]
        IN  [sessions |-> MapSet(m, sessionId, session),
             payments |-> recordPayment(ps, entry),
             entries |-> <<entry>>,
             resp |-> [op |-> "pay/onetime", status |-> 200,
                       body |-> [success |-> TRUE,
                                 sessionId |-> sessionId,
                                 message |-> "One-time access granted!",
                                 access |-> [id |-> sessionId, type |-> "onetime",
                                             createdAt |-> toISOString(t),
                                             validFor |-> "5 minutes (single use)",
                                             walletAddress |-> session.walletAddress,
                                             transactionHash |-> session.transactionHash],
                                 payment |-> [amountUsdTenths |-> ONETIME_AMOUNT_TENTHS,
                                              walletAddress |-> body.walletAddress,
                                              transactionHash |-> body.transactionHash,
                                              metadata |-> body.metadata]]]]

(***************************************************************************)
(* GET /api/session/:sessionId                                             *)
(***************************************************************************)
\* Mutant: the deadline itself counts as expired.
IsExpiredAtDeadline(session, t) == t >= session.expiresAt

IsExpired(session, t) == t > session.expiresAt

\* Mutant: the type is compared with a string no session has.
IsUsedMistyped(session) == session.type = "one-time" /\ session.used

IsUsed(session) == session.type = "onetime" /\ session.used

\* Mutant: the flag is not set.
MarkUsedForgotten(session) == session

MarkUsed(session) == [session EXCEPT !.used = TRUE]

\* Mutant: expiresAt is filled from createdAt.
InvalidViewCopied(session) ==
    IF "used" \in DOMAIN session
    THEN [id |-> session.id, type |-> session.type,
          createdAt |-> toISOString(session.createdAt),
          expiresAt |-> toISOString(session.createdAt),
          used |-> session.used,
          walletAddress |-> session.walletAddress,
          transactionHash |-> session.transactionHash]
    ELSE [id |-> session.id, type |-> session.type,
          createdAt |-> toISOString(session.createdAt),
          expiresAt |-> toISOString(session.createdAt),
          walletAddress |-> session.walletAddress,
          transactionHash |-> session.transactionHash]

\* The session object of the valid:false response; JSON has no `used` property
\* for a session that has none.
InvalidView(session) ==
    IF "used" \in DOMAIN session
    THEN [id |-> session.id, type |-> session.type,
          createdAt |-> toISOString(session.createdAt),
          expiresAt |-> toISOString(session.expiresAt),
          used |-> session.used,
          walletAddress |-> session.walletAddress,
          transactionHash |-> session.transactionHash]
    ELSE [id |-> session.id, type |-> session.type,
          createdAt |-> toISOString(session.createdAt),
          expiresAt |-> toISOString(session.expiresAt),
          walletAddress |-> session.walletAddress,
          transactionHash |-> session.transactionHash]

ValidView(session, t) ==
    [id |-> session.id, type |-> session.type,
     createdAt |-> toISOString(session.createdAt),
     expiresAt |-> toISOString(session.expiresAt),
     remainingTime |-> session.expiresAt - t,
     walletAddress |-> session.walletAddress,
     transactionHash |-> session.transactionHash]

\* Mutant: the status argument of c.json is left out.
SessionNotFoundOk ==
    [op |-> "session", status |-> 200,
     body |-> [valid |-> FALSE, error |-> "Session not found"]]

SessionNotFound ==
    [op |-> "session", status |-> 404,
     body |-> [valid |-> FALSE, error |-> "Session not found"]]

\* Mutant: a validation that finds the session invalid consumes it all the same.
validateSessionConsuming(m, sessionId, t) ==
    IF ~MapHas(m, sessionId)
    THEN [sessions |-> m, resp |-> SessionNotFound]
    ELSE
    LET session == MapGet(m, sessionId)
        isExpired == IsExpired(session, t)
        isUsed == IsUsed(session)
        marked == IF session.type = "onetime"
                  THEN MapSet(m, sessionId, MarkUsed(session))
                  ELSE m
    IN  IF isExpired \/ isUsed
        THEN [sessions |-> marked,
              resp |-> [op |-> "session", status |-> 200,
                        body |-> [valid |-> FALSE,
                                  error |-> IF isExpired THEN "Session expired"
                                            ELSE "One-time access already used",
                                  session |-> InvalidView(session)]]]
        ELSE [sessions |-> marked,
              resp |-> [op |-> "session", status |-> 200,
                        body |-> [valid |-> TRUE, session |-> ValidView(session, t)]]]

\* Mutant: the reason reported looks at consumption before expiry.
validateSessionUsedFirst(m, sessionId, t) ==
    IF ~MapHas(m, sessionId)
    THEN [sessions |-> m, resp |-> SessionNotFound]
    ELSE
    LET session == MapGet(m, sessionId)
        isExpired == IsExpired(session, t)
        isUsed == IsUsed(session)
    IN  IF isExpired \/ isUsed
        THEN [sessions |-> m,
              resp |-> [op |-> "session", status |-> 200,
                        body |-> [valid |-> FALSE,
                                  error |-> IF isUsed THEN "One-time access already used"
                                            ELSE "Session expired",
                                  session |-> InvalidView(session)]]]
        ELSE [sessions |-> IF session.type = "onetime"
                           THEN MapSet(m, sessionId, MarkUsed(session))
                           ELSE m,
              resp |-> [op |-> "session", status |-> 200,
                        body |-> [valid |-> TRUE, session |-> ValidView(session, t)]]]

validateSession(m, sessionId, t) ==
    IF ~MapHas(m, sessionId)
    THEN [sessions |-> m, resp |-> SessionNotFound]
    ELSE
    LET session == MapGet(m, sessionId)
        isExpired == IsExpired(session, t)
        isUsed == IsUsed(session)
    IN  IF isExpired \/ isUsed
        THEN [sessions |-> m,
              resp |-> [op |-> "session", status |-> 200,
                        body |-> [valid |-> FALSE,
                                  error |-> IF isExpired THEN "Session expired"
                                            ELSE "One-time access already used",
                                  session |-> InvalidView(session)]]]
        ELSE [sessions |-> IF session.type = "onetime"
                           THEN MapSet(m, sessionId, MarkUsed(session))
                           ELSE m,
              resp |-> [op |-> "session", status |-> 200,
                        body |-> [valid |-> TRUE, session |-> ValidView(session, t)]]]

\* The ValidationOutcome a response stands for.
Outcome(r) ==
    IF r.status = 404 THEN "NotFound"
    ELSE IF r.body.valid THEN "Valid"
    ELSE IF r.body.error = "Session expired" THEN "Expired"
    ELSE "AlreadyConsumed"

(***************************************************************************)
(* GET /api/sessions                                                       *)
(***************************************************************************)
\* Mutant: the filter looks at the deadline only.
IsActiveUnlessExpired(session, t) == ~(t > session.expiresAt)

\* The callback of Array.prototype.filter; t is what its new Date() reads.
IsActive(session, t) ==
    LET isExpired == t > session.expiresAt
        isUsed == session.type = "onetime" /\ session.used
    IN  ~isExpired /\ ~isUsed

\* Array.prototype.filter: the callback runs once per element, in order, and
\* reads the clock each time; reads[k] is what it reads for the k-th element.
RECURSIVE Filter(_, _)
Filter(seq, reads) ==
    IF seq = <<>> THEN <<>>
    ELSE IF IsActive(Head(seq), Head(reads))
         THEN <<Head(seq)>> \o Filter(Tail(seq), Tail(reads))
         ELSE Filter(Tail(seq), Tail(reads))

Summary(session) ==
    [id |-> session.id, type |-> session.type,
     createdAt |-> toISOString(session.createdAt),
     expiresAt |-> toISOString(session.expiresAt),
     walletAddress |-> session.walletAddress,
     transactionHash |-> session.transactionHash]

listSessions(m, reads) ==
    LET active == Filter(m, reads)
    IN  [op |-> "sessions", status |-> 200,
         body |-> [sessions |-> [i \in 1..Len(active) |-> Summary(active[i])]]]

(***************************************************************************)
(* GET /api/payments                                                       *)
(***************************************************************************)
\* Array.prototype.sort with (a, b) => b.createdAt - a.createdAt: a stable sort,
\* later createdAt first, entries of equal createdAt in their order in the array.
\* The place of entry i in the sorted array: after every entry created later
\* and after the earlier entries of the array created at the same millisecond.
SortedPlace(ps, i) ==
    Cardinality({j \in 1..Len(ps) : ps[j].createdAt > ps[i].createdAt})
    + Cardinality({j \in 1..(i - 1) : ps[j].createdAt = ps[i].createdAt})
    + 1

SortByCreatedAtDesc(ps) ==
    LET place == SubSeq([i \in 1..Len(ps) |-> SortedPlace(ps, i)], 1, Len(ps))
    IN  SubSeq([k \in 1..Len(ps) |-> ps[CHOOSE i \in 1..Len(ps) : place[i] = k]], 1, Len(ps))

Slice(seq, n) == SubSeq(seq, 1, IF Len(seq) < n THEN Len(seq) ELSE n)

PaymentView(payment) == [payment EXCEPT !.createdAt = toISOString(payment.createdAt)]

listPayments(ps) ==
    LET recentPayments == Slice(SortByCreatedAtDesc(ps), RECENT_LIMIT)
    IN  [op |-> "payments", status |-> 200,
         body |-> [payments |-> [i \in 1..Len(recentPayments) |-> PaymentView(recentPayments[i])]]]

(***************************************************************************)
(* The state machine.                                                      *)
(***************************************************************************)
NoTally == [Valid |-> 0, Expired |-> 0, AlreadyConsumed |-> 0, NotFound |-> 0, Peak |-> 0]

Max(a, b) == IF a >= b THEN a ELSE b

\* The ids a client asks about: every id issued so far and the next one to be issued.
Askable == {id \in DOMAIN inflight : id <= Len(sessions) + 1}

Init ==
    /\ sessions = <<>>
    /\ payments = <<>>
    /\ now = 0
    /\ inflight = [id \in Ids |-> 0]
    /\ resp = NoResponse
    /\ recorded = <<>>
    /\ tally = [id \in Ids |-> NoTally]
    /\ events = 0
    /\ BrowserClosed

\* The part of a pay handler after its await: the state it leaves and its response.
Paid(result) ==
    /\ sessions' = result.sessions
    /\ payments' = result.payments
    /\ resp' = result.resp
    /\ recorded' = recorded \o result.entries
    /\ events' = events + 1
    /\ UNCHANGED <<now, inflight, tally, wvars>>

PaySession(raw, pool, limit) ==
    /\ events < limit
    /\ Paid(paySession(sessions, payments, raw, now, pool))

PayOnetime(raw, pool, limit) ==
    /\ events < limit
    /\ Paid(payOnetime(sessions, payments, raw, now, pool))

\* A GET /api/session/:id request reaches the server.
ReceiveValidate(id) ==
    /\ events < MaxEvents
    /\ id \in Askable
    /\ inflight' = [inflight EXCEPT ![id] = @ + 1]
    /\ tally' = [tally EXCEPT ![id].Peak = Max(@, inflight[id] + 1)]
    /\ events' = events + 1
    /\ UNCHANGED <<sessions, payments, now, resp, recorded, wvars>>

\* The handler of one received request runs.
HandleValidate(id) ==
    /\ inflight[id] > 0
    /\ LET result == validateSession(sessions, id, now)
       IN  /\ sessions' = result.sessions
           /\ resp' = result.resp
           /\ tally' = [tally EXCEPT ![id][Outcome(result.resp)] = @ + 1]
    /\ inflight' = [inflight EXCEPT ![id] = @ - 1]
    /\ UNCHANGED <<payments, now, recorded, events, wvars>>

\* What the new Date() calls of n successive callbacks can read when the first
\* runs at t or later: the clock never goes back.
ClockReads(t, n) ==
    {reads \in [1..n -> t..(t + MaxDrift)] : \A k \in 1..(n - 1) : reads[k] <= reads[k + 1]}

\* The handler runs to completion; the clock may move between two callbacks
\* of its filter, and stands at the last value read when the handler returns.
ListSessions ==
    \E reads \in ClockReads(now, Len(sessions)) :
        /\ resp' = listSessions(sessions, reads)
        /\ now' = IF reads = <<>> THEN now ELSE reads[Len(reads)]
        /\ now' # now => events < MaxEvents
        /\ events' = IF now' # now THEN events + 1 ELSE events
        /\ UNCHANGED <<sessions, payments, inflight, recorded, tally, wvars>>

ListPayments ==
    /\ resp' = listPayments(payments)
    /\ UNCHANGED <<sessions, payments, now, inflight, recorded, tally, events, wvars>>

Tick(d, limit) ==
    /\ events < limit
    /\ now' = now + d
    /\ events' = events + 1
    /\ UNCHANGED <<sessions, payments, inflight, resp, recorded, tally, wvars>>

Next ==
    \/ \E raw \in RawBodies : PaySession(raw, Ids, MaxEvents)
    \/ \E raw \in RawBodies : PayOnetime(raw, Ids, MaxEvents)
    \/ \E id \in Ids : ReceiveValidate(id)
    \/ \E id \in Ids : HandleValidate(id)
    \/ ListSessions
    \/ ListPayments
    \/ \E d \in Steps : Tick(d, MaxEvents)

Spec == Init /\ [][Next]_allvars

(***************************************************************************)
(* The ledger near its cap.  SpecLedger starts from the state the server   *)
(* is in after LedgerPrefix purchases, one per millisecond, of alternating *)
(* tiers, and then takes pay requests, clock advances and GET /api/payments.*)
(***************************************************************************)
\* The n-th purchase of the prefix, made at millisecond n into an id of its own.
PrefixPurchase(n) ==
    LET raw == IF n % 3 = 0 THEN Malformed ELSE JsonObject("0xABC", "0xT1", "memo")
    IN  IF n % 2 = 1
        THEN paySession(<<>>, <<>>, raw, n, {n})
        ELSE payOnetime(<<>>, <<>>, raw, n, {n})

\* Below the cap every purchase appends one session and one ledger entry.
LedgerInit ==
    /\ sessions = [n \in 1..LedgerPrefix |-> PrefixPurchase(n).sessions[1]]
    /\ payments = [n \in 1..LedgerPrefix |-> PrefixPurchase(n).entries[1]]
    /\ recorded = [n \in 1..LedgerPrefix |-> PrefixPurchase(n).entries[1]]
    /\ now = LedgerPrefix
    /\ inflight = [id \in Ids |-> 0]
    /\ resp = NoResponse
    /\ tally = [id \in Ids |-> NoTally]
    /\ events = 0
    /\ BrowserClosed

NextLedger ==
    \/ \E raw \in RawBodies : PaySession(raw, LedgerIds, LedgerBurst)
    \/ \E raw \in RawBodies : PayOnetime(raw, LedgerIds, LedgerBurst)
    \/ ListPayments
    \/ \E d \in Steps : Tick(d, LedgerBurst)

SpecLedger == LedgerInit /\ [][NextLedger]_allvars

(***************************************************************************)
(* Vocabulary of the claims.                                               *)
(***************************************************************************)
\* This step is the handler of a GET /api/session/:id request for `id`.
Validates(id) == inflight'[id] = inflight[id] - 1

\* Validations of `id` answered since it is in the store.
Answered(id) == tally[id].Valid + tally[id].Expired + tally[id].AlreadyConsumed

StoredIds == MapKeys(sessions)

Stored(id) == MapGet(sessions, id)

(***************************************************************************)
(* C1.  Concurrent validations of one fresh SingleUse grant: however many  *)
(* requests are in flight together and in whatever order their handlers    *)
(* run, at most one is answered Valid; and as long as the grant has not    *)
(* expired, exactly one of the answered requests got Valid and every other *)
(* one got AlreadyConsumed.                                                *)
(***************************************************************************)
C1_ExactlyOneValid ==
    \A id \in StoredIds :
        Stored(id).type = "onetime" =>
            /\ tally[id].Valid <= 1
            /\ (tally[id].Valid = 1) <=> Stored(id).used
            /\ (now <= Stored(id).expiresAt /\ Answered(id) >= 1) =>
                   /\ tally[id].Valid = 1
                   /\ tally[id].Expired = 0
                   /\ tally[id].AlreadyConsumed = Answered(id) - 1

\* Three requests were in flight at once against an unexpired SingleUse grant
\* and all three have been answered.
C1_Witness ==
    \E id \in StoredIds :
        /\ Stored(id).type = "onetime"
        /\ now <= Stored(id).expiresAt
        /\ tally[id].Peak >= 3
        /\ inflight[id] = 0
        /\ tally[id].Valid = 1
        /\ tally[id].AlreadyConsumed = 2

(***************************************************************************)
(* C2.  As claimed: the first validation of a SingleUse grant made while   *)
(* now <= expiresAt is answered Valid, and every validation after it, at   *)
(* any later time, is answered AlreadyConsumed.                            *)
(***************************************************************************)
C2_AlwaysAlreadyConsumed ==
    [][\A id \in StoredIds :
          (Validates(id) /\ Stored(id).type = "onetime") =>
              /\ (tally[id].Valid = 0 /\ now <= Stored(id).expiresAt) =>
                     (resp'.status = 200 /\ resp'.body.valid)
              /\ tally[id].Valid >= 1 =>
                     /\ resp'.status = 200 /\ ~resp'.body.valid
                     /\ resp'.body.error = "One-time access already used"]_vars

(***************************************************************************)
(* C2, amended.  The first validation of a SingleUse grant made while      *)
(* now <= expiresAt is answered Valid and sets `used`; every validation    *)
(* after it is answered valid:false: AlreadyConsumed while                 *)
(* now <= expiresAt, Expired once now > expiresAt.                         *)
(***************************************************************************)
C2_ConsumedOnce ==
    [][\A id \in StoredIds :
          (Validates(id) /\ Stored(id).type = "onetime") =>
              /\ (tally[id].Valid = 0 /\ now <= Stored(id).expiresAt) =>
                     /\ resp'.status = 200 /\ resp'.body.valid
                     /\ resp'.body.session.id = id
                     /\ MapGet(sessions', id).used
              /\ tally[id].Valid >= 1 =>
                     /\ resp'.status = 200 /\ ~resp'.body.valid
                     /\ resp'.body.error = IF now <= Stored(id).expiresAt
                                           THEN "One-time access already used"
                                           ELSE "Session expired"]_vars

\* A consumed SingleUse grant was validated again before its expiry and the
\* answer was AlreadyConsumed.
C2_Witness ==
    \E id \in StoredIds :
        /\ Stored(id).type = "onetime"
        /\ now <= Stored(id).expiresAt
        /\ tally[id].Valid = 1
        /\ tally[id].AlreadyConsumed >= 1
        /\ resp.op = "session" /\ resp.status = 200 /\ ~resp.body.valid
        /\ resp.body.error = "One-time access already used"
        /\ resp.body.session.id = id

(***************************************************************************)
(* C3.  A validation of a TimedSession grant is answered Valid whenever    *)
(* now <= expiresAt, the deadline included and whatever was validated      *)
(* before, and Expired when now > expiresAt; it changes neither the store  *)
(* nor the ledger.                                                         *)
(***************************************************************************)
C3_TimedSessionValidUntilExpiry ==
    [][\A id \in StoredIds :
          (Validates(id) /\ Stored(id).type = "24hour") =>
              /\ resp'.status = 200
              /\ resp'.body.valid <=> (now <= Stored(id).expiresAt)
              /\ now > Stored(id).expiresAt => resp'.body.error = "Session expired"
              /\ resp'.body.session.id = id
              /\ sessions' = sessions
              /\ payments' = payments]_vars

\* A TimedSession grant was validated at least twice, the last time at its
\* deadline, and was answered Valid.
C3_Witness ==
    \E id \in StoredIds :
        /\ Stored(id).type = "24hour"
        /\ now = Stored(id).expiresAt
        /\ tally[id].Valid >= 2
        /\ resp.op = "session" /\ resp.status = 200 /\ resp.body.valid
        /\ resp.body.session.id = id
        /\ resp.body.session.remainingTime = 0

(***************************************************************************)
(* C4.  A validation of an id that no purchase has issued is answered      *)
(* NotFound with status 404, and the store and the ledger stay as they are.*)
(***************************************************************************)
C4_UnknownIdNotFound ==
    [][\A id \in Ids :
          (Validates(id) /\ id \notin StoredIds) =>
              /\ resp'.status = 404
              /\ ~resp'.body.valid
              /\ resp'.body.error = "Session not found"
              /\ sessions' = sessions
              /\ payments' = payments]_vars

\* An unknown id was validated while the store held a grant.
C4_Witness ==
    \E id \in Ids \ StoredIds :
        /\ tally[id].NotFound >= 1
        /\ sessions # <<>>
        /\ resp.op = "session" /\ resp.status = 404

(***************************************************************************)
(* C5.  A validation of an issued id is never answered NotFound: the       *)
(* status is 200 and the body is either valid:true, or valid:false with    *)
(* the reason Expired or AlreadyConsumed and the data of the grant.  No    *)
(* step removes a grant from the store.                                    *)
(***************************************************************************)
C5_IssuedIdNeverNotFound ==
    [][/\ \A id \in StoredIds :
            Validates(id) =>
               /\ resp'.status = 200
               /\ \/ resp'.body.valid
                  \/ /\ resp'.body.error \in {"Session expired", "One-time access already used"}
                     /\ resp'.body.session.id = id
                     /\ resp'.body.session.type = Stored(id).type
                     /\ resp'.body.session.createdAt = toISOString(Stored(id).createdAt)
                     /\ resp'.body.session.expiresAt = toISOString(Stored(id).expiresAt)
                     /\ resp'.body.session.walletAddress = Stored(id).walletAddress
                     /\ resp'.body.session.transactionHash = Stored(id).transactionHash
       /\ StoredIds \subseteq MapKeys(sessions')]_vars

\* A consumed SingleUse grant was validated after its expiry: the answer is
\* status 200, valid:false, with the grant in it.
C5_Witness ==
    \E id \in StoredIds :
        /\ Stored(id).type = "onetime" /\ Stored(id).used
        /\ now > Stored(id).expiresAt
        /\ tally[id].Expired >= 1
        /\ resp.op = "session" /\ resp.status = 200 /\ ~resp.body.valid
        /\ resp.body.session.id = id

(***************************************************************************)
(* C6.  Every pay request succeeds: it is answered 200 with success:true,  *)
(* adds exactly one grant to the store under an id the store did not hold, *)
(* and appends exactly one ledger entry with that id and the grant's tier, *)
(* walletAddress, transactionHash and creation time and the tier's price;  *)
(* every ledger entry carries the id of a stored grant.                    *)
(***************************************************************************)
\* This step is the handler of a POST /api/pay/... request.
Pays == events' = events + 1 /\ now' = now /\ inflight' = inflight

C6_EveryPurchaseSucceeds ==
    [][Pays =>
         /\ resp'.status = 200
         /\ resp'.body.success
         /\ resp'.body.sessionId \notin StoredIds
         /\ Len(sessions') = Len(sessions) + 1
         /\ SubSeq(sessions', 1, Len(sessions)) = sessions
         /\ sessions'[Len(sessions')].id = resp'.body.sessionId
         /\ Len(recorded') = Len(recorded) + 1
         /\ payments' # <<>>
         /\ payments'[Len(payments')] = recorded'[Len(recorded')]
         /\ LET grant == sessions'[Len(sessions')]
                entry == payments'[Len(payments')]
            IN  /\ entry.id = grant.id
                /\ entry.type = grant.type
                /\ entry.walletAddress = grant.walletAddress
                /\ entry.transactionHash = grant.transactionHash
                /\ entry.walletAddress = resp'.body.payment.walletAddress
                /\ entry.transactionHash = resp'.body.payment.transactionHash
                /\ entry.amountUsdTenths = IF grant.type = "24hour" THEN 10 ELSE 1
         /\ \A i \in 1..Len(payments') : payments'[i].id \in MapKeys(sessions')]_vars

(***************************************************************************)
(* C7.  Every stored grant has expiresAt - createdAt equal to the lifetime *)
(* of its tier, 24 hours for "24hour" and 5 minutes for "onetime", in      *)
(* milliseconds; and every ledger entry has the createdAt of the grant     *)
(* with its id.                                                            *)
(***************************************************************************)
C7_ExactLifetime ==
    /\ \A i \in 1..Len(sessions) :
          sessions[i].expiresAt - sessions[i].createdAt
              = IF sessions[i].type = "24hour" THEN 86400000 ELSE 300000
    /\ \A i \in 1..Len(payments) :
          /\ payments[i].id \in StoredIds
          /\ Stored(payments[i].id).createdAt = payments[i].createdAt
          /\ Stored(payments[i].id).type = payments[i].type

\* Grants of both tiers, bought after the clock had advanced, are in the store.
C7_Witness ==
    /\ \E i \in 1..Len(sessions) : sessions[i].type = "24hour" /\ sessions[i].createdAt > 0
    /\ \E i \in 1..Len(sessions) : sessions[i].type = "onetime" /\ sessions[i].createdAt > 0
    /\ Len(payments) = 2

(***************************************************************************)
(* C8.  The ledger holds at most 100 entries and is the last               *)
(* min(n, 100) of the n entries recorded so far, in the order they were    *)
(* recorded; once 101 entries have been recorded the first one is gone.    *)
(***************************************************************************)
C8_LedgerIsLastHundred ==
    LET n == Len(recorded)
        k == IF n < 100 THEN n ELSE 100
    IN  /\ Len(payments) <= 100
        /\ payments = SubSeq(recorded, n - k + 1, n)
        /\ n >= 101 => \A i \in 1..Len(payments) : payments[i] # recorded[1]

\* The 101st entry has been recorded: the ledger holds entries 2 to 101.
C8_Witness ==
    /\ Len(recorded) = 101
    /\ Len(payments) = 100
    /\ payments[1] = recorded[2]
    /\ payments[100] = recorded[101]

(***************************************************************************)
(* C9.  GET /api/payments answers with the newest min(25, n) entries of    *)
(* the ledger, the most recently recorded first, also when entries share   *)
(* a createdAt; the ledger itself is as it was.                            *)
(***************************************************************************)
NewestFirst(ps, limit) ==
    LET n == Len(ps)
        k == IF n < limit THEN n ELSE limit
    IN  [i \in 1..k |-> [ps[n - i + 1] EXCEPT !.createdAt = toISOString(@)]]

C9_NewestFirst ==
    [][(resp'.op = "payments" /\ resp' # resp) =>
          /\ resp'.status = 200
          /\ resp'.body.payments = NewestFirst(payments, 25)
          /\ payments' = payments]_vars

(***************************************************************************)
(* C10.  GET /api/sessions lists each grant that satisfies the validity    *)
(* invariant at the time of the call, t <= expiresAt and, for "onetime",   *)
(* not used, once, and no other grant, t being one instant between the     *)
(* start of the handler and its return; a grant is listed exactly if a     *)
(* validation of it at that instant would be answered Valid; the call      *)
(* changes neither the store nor the ledger.                               *)
(***************************************************************************)
ValidAt(session, t) ==
    t <= session.expiresAt /\ (session.type # "onetime" \/ ~session.used)

Listed(r) == {r.body.sessions[i].id : i \in 1..Len(r.body.sessions)}

C10_ListActiveIsValidSet ==
    [][(resp'.op = "sessions" /\ resp' # resp) =>
          /\ resp'.status = 200
          /\ \E t \in now..now' :
                /\ Listed(resp') = {id \in StoredIds : ValidAt(Stored(id), t)}
                /\ \A id \in Ids :
                      (id \in Listed(resp'))
                          <=> validateSession(sessions, id, t).resp.body.valid
          /\ Len(resp'.body.sessions) = Cardinality(Listed(resp'))
          /\ sessions' = sessions
          /\ payments' = payments]_vars

\* What does hold of the list: it names no grant twice, every grant valid when
\* the handler returns, and no grant that was not valid when it started; it is
\* the valid set of that instant when the clock did not move in between.
C10_ListBetweenStartAndReturn ==
    [][(resp'.op = "sessions" /\ resp' # resp) =>
          /\ resp'.status = 200
          /\ {id \in StoredIds : ValidAt(Stored(id), now')} \subseteq Listed(resp')
          /\ Listed(resp') \subseteq {id \in StoredIds : ValidAt(Stored(id), now)}
          /\ Len(resp'.body.sessions) = Cardinality(Listed(resp'))
          /\ sessions' = sessions
          /\ payments' = payments]_vars

\* The list was taken while the store held a consumed SingleUse grant and an
\* unexpired TimedSession grant: it names the TimedSession grant alone.
C10_Witness ==
    /\ resp.op = "sessions"
    /\ Len(resp.body.sessions) = 1
    /\ \E id \in StoredIds :
          /\ Stored(id).type = "onetime" /\ Stored(id).used
          /\ now <= Stored(id).expiresAt
          /\ id \notin Listed(resp)
    /\ \E id \in StoredIds :
          /\ Stored(id).type = "24hour"
          /\ now <= Stored(id).expiresAt
          /\ id \in Listed(resp)

\* The `used` property of a stored session: <<>> when the object has none.
UsedFlag(session) == IF "used" \in DOMAIN session THEN <<session.used>> ELSE <<>>

(***************************************************************************)
(* C26.  Expiry takes precedence over consumption: a validation of a grant *)
(* in the store made when now > expiresAt is answered Expired, with error  *)
(* "Session expired", whether or not the grant was consumed; the answer is *)
(* AlreadyConsumed exactly for a consumed SingleUse grant validated while  *)
(* now <= expiresAt.  The `used` flag of a grant changes only from false   *)
(* to true, only on a SingleUse grant, and only in a validation of that    *)
(* grant that is answered Valid.                                           *)
(***************************************************************************)
C26_ExpiryBeforeConsumption ==
    [][/\ \A id \in StoredIds :
            Validates(id) =>
                /\ now > Stored(id).expiresAt =>
                       /\ Outcome(resp') = "Expired"
                       /\ resp'.status = 200 /\ ~resp'.body.valid
                       /\ resp'.body.error = "Session expired"
                /\ Outcome(resp') = "AlreadyConsumed" <=>
                       /\ Stored(id).type = "onetime" /\ Stored(id).used
                       /\ now <= Stored(id).expiresAt
       /\ \A id \in StoredIds :
            /\ id \in MapKeys(sessions')
            /\ UsedFlag(MapGet(sessions', id)) # UsedFlag(Stored(id)) =>
                   /\ UsedFlag(Stored(id)) = <<FALSE>>
                   /\ UsedFlag(MapGet(sessions', id)) = <<TRUE>>
                   /\ Stored(id).type = "onetime"
                   /\ Validates(id)
                   /\ Outcome(resp') = "Valid"
                   /\ resp'.body.session.id = id]_vars

\* A consumed SingleUse grant was validated after its expiry and the answer
\* was Expired, the response showing the grant as used.
C26_Witness ==
    \E id \in StoredIds :
        /\ Stored(id).type = "onetime"
        /\ Stored(id).used
        /\ tally[id].Valid = 1
        /\ tally[id].Expired >= 1
        /\ now > Stored(id).expiresAt
        /\ resp.op = "session" /\ Outcome(resp) = "Expired"
        /\ resp.body.error = "Session expired"
        /\ resp.body.session.id = id
        /\ resp.body.session.used

(***************************************************************************)
(* C22.  A validation of a grant that is in the store and is not valid is  *)
(* answered valid:false with the reason that applies, and changes neither  *)
(* the store nor the ledger; an expired SingleUse grant that was never     *)
(* consumed is answered Expired and is still not consumed afterwards.      *)
(***************************************************************************)
C22_InvalidMutatesNothing ==
    [][\A id \in StoredIds :
          (Validates(id) /\ (IsExpired(Stored(id), now) \/ IsUsed(Stored(id)))) =>
              /\ resp'.status = 200 /\ ~resp'.body.valid
              /\ resp'.body.error \in {"Session expired", "One-time access already used"}
              /\ resp'.body.error = "Session expired" <=> IsExpired(Stored(id), now)
              /\ sessions' = sessions
              /\ payments' = payments
              /\ recorded' = recorded
              /\ (Stored(id).type = "onetime" /\ ~Stored(id).used) =>
                     /\ Outcome(resp') = "Expired"
                     /\ ~MapGet(sessions', id).used]_vars

\* An expired SingleUse grant that was never consumed has been validated and
\* is still not consumed.
C22_Witness ==
    \E id \in StoredIds :
        /\ Stored(id).type = "onetime"
        /\ ~Stored(id).used
        /\ now > Stored(id).expiresAt
        /\ tally[id].Expired >= 1
        /\ tally[id].Valid = 0
        /\ resp.op = "session" /\ resp.status = 200 /\ ~resp.body.valid
        /\ resp.body.error = "Session expired"

(***************************************************************************)
(* C23.  Only a purchase changes the ledger: a validation (the consuming   *)
(* one included), a listing of the sessions or of the payments and the     *)
(* passage of time leave it as it is.  A purchase leaves every entry as it *)
(* was and in its place, puts the new entry last, and drops the oldest     *)
(* entry, and only that one, when the ledger was full.                     *)
(***************************************************************************)
C23_LedgerChangesOnlyByPurchase ==
    [][/\ ~Pays => payments' = payments
       /\ payments' # payments =>
             LET kept == SubSeq(payments', 1, Len(payments') - 1)
             IN  /\ Len(payments') >= 1
                 /\ \/ kept = payments
                    \/ /\ Len(payments) = MAX_PAYMENT_HISTORY
                       /\ kept = Tail(payments)]_vars

\* A SingleUse grant was bought and consumed, its expiry has passed, and the
\* ledger still holds the entry of its purchase, as it was recorded.
C23_Witness ==
    \E id \in StoredIds :
        /\ Stored(id).type = "onetime"
        /\ Stored(id).used
        /\ tally[id].Valid = 1
        /\ now > Stored(id).expiresAt
        /\ Len(payments) >= 1
        /\ payments = recorded

(***************************************************************************)
(* The wallet connector.                                                   *)
(*                                                                         *)
(* JavaScript runs each callback to completion, and React applies the      *)
(* setState calls of one synchronous run together.  So the part of an      *)
(* async function between two awaits is one action: it reads the cells,    *)
(* applies its setters in program order, and sends at most one request.    *)
(* What a provider answers, and when, is the environment's choice.         *)
(***************************************************************************)

\* What the environment can inject, and what a provider can answer.
Injected == { EthUndefined,
              EthObject("metamask"),
              EthWithProviders("coinbase", <<"metamask", "coinbase">>),
              EthArray(<<"coinbase", "metamask">>) }
AccountLists == { <<>>, <<"0xA">>, <<"0xB", "0xA">> }
MONAD_TESTNET_CHAIN_ID_HEX == "0x279F"
ChainIds == { MONAD_TESTNET_CHAIN_ID_HEX, "0x1" }

\* A rejection is an object with a numeric `code` and, possibly, a `message`.
ProviderErrors == { [code |-> 4001,   message |-> "User rejected the request."],
                    [code |-> 4902,   message |-> "Unrecognized chain ID"],
                    [code |-> -32002, message |-> "Request already pending"],
                    [code |-> -32603, message |-> "Permission denied"],
                    [code |-> -32603, message |-> Undefined] }

\* message.includes(word), for the messages of ProviderErrors.
Includes(message, word) ==
    \/ word = "rejected" /\ message = "User rejected the request."
    \/ word = "denied" /\ message = "Permission denied"

\* The texts of the thrown errors, named by what they say.
NoProviderAvailable == <<"NoProviderAvailable">>      \* line 71
UserRejectedConnection == <<"UserRejectedConnection">> \* line 95
ConnectFailed(message) == <<"ConnectFailed", message>> \* line 100
WalletUnavailable == <<"WalletUnavailable">>          \* line 103
NoAccountsFound == <<"NoAccountsFound">>              \* line 109
ChainReadFailure == <<"ChainReadFailure">>            \* line 120
NetworkAddRejected == <<"NetworkAddRejected">>        \* line 152
NetworkAddFailed == <<"NetworkAddFailed">>            \* line 154
NetworkSwitchRejected == <<"NetworkSwitchRejected">>  \* line 157
NetworkSwitchFailed(message) == <<"NetworkSwitchFailed", message>> \* line 160

\* Provider discovery which takes the last of several providers.
selectLastProvider(eth) ==
    IF eth.kind = "array" THEN eth.list[Len(eth.list)]
    ELSE IF eth.hasProviders THEN eth.list[Len(eth.list)]
    ELSE eth.self

\* Provider discovery: the statement repeated in checkConnection, connectWallet
\* and the subscription effect.
selectProvider(eth) ==
    IF eth.kind = "array" THEN eth.list[1]
    ELSE IF eth.hasProviders THEN eth.list[1]
    ELSE eth.self

\* The five cells, read together.
Cells == [isConnected |-> isConnected, address |-> address, walletClient |-> walletClient,
          error |-> error, isConnecting |-> isConnecting]

\* A call of a setter.  React queues the calls of one synchronous run and
\* applies them together: each cell takes the value of the last call made
\* to it, and keeps its value when no call was made to it.
setIsConnected(v) == [cell |-> "isConnected", value |-> v]
setAddress(v) == [cell |-> "address", value |-> v]
setWalletClient(v) == [cell |-> "walletClient", value |-> v]
setError(v) == [cell |-> "error", value |-> v]
setIsConnecting(v) == [cell |-> "isConnecting", value |-> v]

RECURSIVE LastCall(_, _, _)
LastCall(calls, cell, old) ==
    IF calls = <<>> THEN old
    ELSE IF calls[Len(calls)].cell = cell THEN calls[Len(calls)].value
    ELSE LastCall(SubSeq(calls, 1, Len(calls) - 1), cell, old)

Batch(st, calls) ==
    [isConnected |-> LastCall(calls, "isConnected", st.isConnected),
     address |-> LastCall(calls, "address", st.address),
     walletClient |-> LastCall(calls, "walletClient", st.walletClient),
     error |-> LastCall(calls, "error", st.error),
     isConnecting |-> LastCall(calls, "isConnecting", st.isConnecting)]

disconnectWallet ==
    <<setWalletClient(NoClient), setAddress(Null), setIsConnected(FALSE), setError(NoError)>>

\* Binding an account without raising the connected flag.
BindWithoutFlag(account, provider) ==
    <<setWalletClient(WalletClient(account, provider)), setAddress(account)>>

\* The three setters that bind an account: they follow createWalletClient in
\* checkConnection, connectWallet and handleAccountsChanged.
Bind(account, provider) ==
    <<setWalletClient(WalletClient(account, provider)), setAddress(account),
      setIsConnected(TRUE)>>

\* The catch and the finally of connectWallet.  Every error thrown inside its
\* try is an Error made with a text, so the catch keeps err.message.
Caught(message) == <<setError(message)>>
Finally == <<setIsConnecting(FALSE)>>

(***************************************************************************)
(* connectWallet, cut at its awaits.  Each piece takes the call's own      *)
(* record `at` (its provider, its accounts, the requests it has sent) and  *)
(* gives back the setter calls it made, the record as it leaves it, and    *)
(* how it ended: suspended on a request, failed, or connected.  A call     *)
(* that has returned keeps no record.                                      *)
(***************************************************************************)
\* A throw inside the try: the catch sets the error, the finally ends the call.
Throw(calls, at, message) ==
    [calls |-> calls \o Caught(message) \o Finally, at |-> NoAttempt, outcome |-> "failed"]

\* `await ethereum.request({ method })`: the call is suspended on the request.
Request(calls, at, method) ==
    [calls |-> calls, at |-> [at EXCEPT !.pc = method, !.sent = Append(@, method)],
     outcome |-> "suspended"]

\* Lines 165-174 and the finally: the client is made and the account bound.
Connected(at) ==
    [calls |-> Bind(at.accounts[1], at.provider) \o Finally, at |-> NoAttempt,
     outcome |-> "connected"]

\* connectWallet() which asks the provider without looking for it.
connectWalletUnchecked(eth) ==
    Request(<<setError(NoError), setIsConnecting(TRUE)>>,
            [NoAttempt EXCEPT !.provider = selectProvider(eth)], "eth_requestAccounts")

\* Lines 64-89, up to the first await.
connectWallet(eth) ==
    LET entered == <<setError(NoError), setIsConnecting(TRUE)>>
    IN  IF eth.kind = "undefined"
        THEN Throw(entered, NoAttempt, NoProviderAvailable)
        ELSE Request(entered, [NoAttempt EXCEPT !.provider = selectProvider(eth)],
                     "eth_requestAccounts")

\* Lines 90-104: what the rejection of eth_requestAccounts is turned into.
requestError(err) ==
    IF \/ err.code = 4001
       \/ Includes(err.message, "rejected")
       \/ Includes(err.message, "denied")
    THEN UserRejectedConnection
    ELSE IF err.message # Undefined THEN ConnectFailed(err.message)
    ELSE WalletUnavailable

accountsRejected(at, err) == Throw(<<>>, at, requestError(err))

\* Lines 106-115: eth_requestAccounts resolved.
accountsResolved(at, accounts) ==
    IF Len(accounts) = 0
    THEN Throw(<<>>, at, NoAccountsFound)
    ELSE Request(<<>>, [at EXCEPT !.accounts = accounts], "eth_chainId")

\* Lines 118-121: eth_chainId rejected.
chainIdRejected(at) == Throw(<<>>, at, ChainReadFailure)

\* Lines 123-131: eth_chainId resolved.
chainIdResolved(at, chainId) ==
    IF chainId # MONAD_TESTNET_CHAIN_ID_HEX
    THEN Request(<<>>, at, "wallet_switchEthereumChain")
    ELSE Connected(at)

\* wallet_switchEthereumChain resolved: the if of line 125 is left.
switchResolved(at) == Connected(at)

\* Lines 131-163: wallet_switchEthereumChain rejected.
switchRejected(at, err) ==
    IF err.code = 4902 THEN Request(<<>>, at, "wallet_addEthereumChain")
    ELSE IF err.code = 4001 THEN Throw(<<>>, at, NetworkSwitchRejected)
    ELSE Throw(<<>>, at, NetworkSwitchFailed(IF err.message # Undefined
                                             THEN err.message ELSE "unknown"))

\* wallet_addEthereumChain resolved: both try blocks are left.
addResolved(at) == Connected(at)

\* Lines 149-155: wallet_addEthereumChain rejected.
addRejected(at, err) ==
    IF err.code = 4001 THEN Throw(<<>>, at, NetworkAddRejected)
    ELSE Throw(<<>>, at, NetworkAddFailed)

(***************************************************************************)
(* checkConnection and the handlers of the provider's events.              *)
(***************************************************************************)
\* Lines 30-46, up to the await.
checkConnection(eth) ==
    IF eth.kind = "undefined" THEN [pc |-> "done", provider |-> Null]
    ELSE [pc |-> "eth_accounts", provider |-> selectProvider(eth)]

\* Lines 48-58: eth_accounts resolved.
checkResolved(accounts, provider) ==
    IF Len(accounts) > 0 THEN Bind(accounts[1], provider) ELSE <<>>

\* Lines 234-249.  `closed` is the address the handler closed over.
handleAccountsChanged(accounts, closed, provider) ==
    IF Len(accounts) = 0 THEN disconnectWallet
    ELSE IF accounts[1] # closed THEN Bind(accounts[1], provider)
    ELSE <<>>

(***************************************************************************)
(* The connector as a state machine.                                       *)
(***************************************************************************)
\* The server has just started and serves no request; the page has just loaded.
WalletInit ==
    /\ sessions = <<>>
    /\ payments = <<>>
    /\ now = 0
    /\ inflight = [id \in Ids |-> 0]
    /\ resp = NoResponse
    /\ recorded = <<>>
    /\ tally = [id \in Ids |-> NoTally]
    /\ events = 0
    /\ ethereum \in Injected
    /\ PageLoaded

\* The setter calls of one synchronous run are applied.
Commit(calls) ==
    \E st \in { Batch(Cells, calls) } :
        /\ isConnected' = st.isConnected
        /\ address' = st.address
        /\ walletClient' = st.walletClient
        /\ error' = st.error
        /\ isConnecting' = st.isConnecting

\* The provider the subscription effect (lines 221-262) listens to, if any.
Subscribed == mounted /\ ethereum.kind # "undefined"

\* The effects of the first render: checkConnection() is called and runs up
\* to its await, then the handlers are subscribed.
Mount ==
    /\ ~mounted
    /\ mounted' = TRUE
    /\ check' = checkConnection(ethereum)
    /\ handlerAddress' = address
    /\ reloading' = FALSE
    /\ UNCHANGED <<vars, ethereum, isConnected, address, walletClient, error,
                   isConnecting, attempts, verified>>

\* After a render that changed `address`, the subscription effect runs again.
Resubscribe ==
    /\ mounted
    /\ handlerAddress # address
    /\ handlerAddress' = address
    /\ UNCHANGED <<vars, ethereum, reloading, mounted, isConnected, address, walletClient, error,
                   isConnecting, check, attempts, verified>>

CheckResolves(accounts) ==
    /\ check.pc = "eth_accounts"
    /\ Commit(checkResolved(accounts, check.provider))
    /\ check' = [check EXCEPT !.pc = "done"]
    /\ UNCHANGED <<vars, ethereum, reloading, mounted, attempts, handlerAddress, verified>>

\* Lines 59-61: the rejection is logged.
CheckRejects ==
    /\ check.pc = "eth_accounts"
    /\ check' = [check EXCEPT !.pc = "done"]
    /\ UNCHANGED <<vars, ethereum, reloading, mounted, isConnected, address, walletClient, error,
                   isConnecting, attempts, handlerAddress, verified>>

\* A piece of the connectWallet() call in slot i has run and left `r`.
Continue(i, r) ==
    /\ Commit(r.calls)
    /\ attempts' = [attempts EXCEPT ![i] = r.at]
    /\ verified' = (verified \/ r.outcome = "connected")
    /\ UNCHANGED <<vars, ethereum, reloading, mounted, check, handlerAddress>>

Awaits(i, method) == attempts[i].pc = method

\* connectWallet() is called, by whoever holds the context value.
Connect ==
    /\ mounted
    /\ \E i \in 1..MaxConnects :
          /\ attempts[i].pc = "none"
          /\ \A j \in 1..(i - 1) : attempts[j].pc # "none"
          /\ Continue(i, connectWallet(ethereum))

AccountsResolve(i, accounts) ==
    /\ Awaits(i, "eth_requestAccounts")
    /\ Continue(i, accountsResolved(attempts[i], accounts))

AccountsReject(i, err) ==
    /\ Awaits(i, "eth_requestAccounts")
    /\ Continue(i, accountsRejected(attempts[i], err))

ChainIdResolves(i, chainId) ==
    /\ Awaits(i, "eth_chainId")
    /\ Continue(i, chainIdResolved(attempts[i], chainId))

ChainIdRejects(i) ==
    /\ Awaits(i, "eth_chainId")
    /\ Continue(i, chainIdRejected(attempts[i]))

SwitchResolves(i) ==
    /\ Awaits(i, "wallet_switchEthereumChain")
    /\ Continue(i, switchResolved(attempts[i]))

SwitchRejects(i, err) ==
    /\ Awaits(i, "wallet_switchEthereumChain")
    /\ Continue(i, switchRejected(attempts[i], err))

AddResolves(i) ==
    /\ Awaits(i, "wallet_addEthereumChain")
    /\ Continue(i, addResolved(attempts[i]))

AddRejects(i, err) ==
    /\ Awaits(i, "wallet_addEthereumChain")
    /\ Continue(i, addRejected(attempts[i], err))

\* disconnectWallet() is called, by whoever holds the context value.
Disconnect ==
    /\ mounted
    /\ Commit(disconnectWallet)
    /\ verified' = FALSE
    /\ UNCHANGED <<vars, ethereum, reloading, mounted, check, attempts, handlerAddress>>

\* The provider emits accountsChanged.
AccountsChanged(accounts) ==
    /\ Subscribed
    /\ Commit(handleAccountsChanged(accounts, handlerAddress, selectProvider(ethereum)))
    /\ verified' = (verified /\ Len(accounts) # 0)
    /\ UNCHANGED <<vars, ethereum, reloading, mounted, check, attempts, handlerAddress>>

\* The provider emits chainChanged: handleChainChanged calls
\* window.location.reload() (lines 251-253) and returns.  The call starts a
\* navigation; the document, its cells, its handlers and the calls suspended
\* in it stay as they are, and go on running, until the document is unloaded.
ChainChanged ==
    /\ Subscribed
    /\ reloading' = TRUE
    /\ UNCHANGED <<vars, ethereum, mounted, isConnected, address, walletClient, error,
                   isConnecting, check, attempts, handlerAddress, verified>>

\* The navigation started by reload() unloads the document: the cells and
\* every call suspended in it are gone, and the page is loaded anew.
Unload ==
    /\ mounted
    /\ reloading
    /\ mounted' = FALSE
    /\ isConnected' = FALSE
    /\ address' = Null
    /\ walletClient' = NoClient
    /\ error' = NoError
    /\ isConnecting' = FALSE
    /\ check' = NoCheck
    /\ attempts' = [i \in 1..MaxConnects |-> NoAttempt]
    /\ handlerAddress' = Null
    /\ verified' = FALSE
    /\ reloading' = FALSE
    /\ UNCHANGED <<vars, ethereum>>

WalletNext ==
    \/ Mount
    \/ Resubscribe
    \/ \E accounts \in AccountLists : CheckResolves(accounts)
    \/ CheckRejects
    \/ Connect
    \/ \E i \in 1..MaxConnects, accounts \in AccountLists : AccountsResolve(i, accounts)
    \/ \E i \in 1..MaxConnects, err \in ProviderErrors : AccountsReject(i, err)
    \/ \E i \in 1..MaxConnects, chainId \in ChainIds : ChainIdResolves(i, chainId)
    \/ \E i \in 1..MaxConnects : ChainIdRejects(i)
    \/ \E i \in 1..MaxConnects : SwitchResolves(i)
    \/ \E i \in 1..MaxConnects, err \in ProviderErrors : SwitchRejects(i, err)
    \/ \E i \in 1..MaxConnects : AddResolves(i)
    \/ \E i \in 1..MaxConnects, err \in ProviderErrors : AddRejects(i, err)
    \/ Disconnect
    \/ \E accounts \in AccountLists : AccountsChanged(accounts)
    \/ ChainChanged
    \/ Unload

SpecWallet == WalletInit /\ [][WalletNext]_allvars

(***************************************************************************)
(* Claims about the wallet connector.                                      *)
(*                                                                         *)
(* The connector keeps no status.  What it hands to the page (lines        *)
(* 264-272) is the cells: isConnected says Connected, isConnecting says    *)
(* Connecting, a message in error says Error, and nothing is said when all *)
(* three are clear.  The code can set several of them at once, and none    *)
(* is given precedence here: the status is X when X is all the cells say.  *)
(***************************************************************************)
StatusesOf(st) ==
    LET said == (IF st.isConnected THEN {"Connected"} ELSE {})
                \cup (IF st.isConnecting THEN {"Connecting"} ELSE {})
                \cup (IF st.error # NoError THEN {"Error"} ELSE {})
    IN  IF said = {} THEN {"Disconnected"} ELSE said

Statuses == StatusesOf(Cells)

Slots == 1..MaxConnects

\* The connectWallet() calls suspended at a request to the provider.
InProgress == { i \in Slots : attempts[i].pc # "none" }

\* The step is the call of connectWallet() that takes slot i.
Calls(i) == attempts[i].pc = "none" /\ attempts'[i].pc = "eth_requestAccounts"

\* What an answer that lets the suspended call `at` connect makes it do: the
\* expected chain id, or the grant of its switch or add request.
Succeeds(at) ==
    IF at.pc = "eth_chainId" THEN chainIdResolved(at, MONAD_TESTNET_CHAIN_ID_HEX)
    ELSE IF at.pc = "wallet_switchEthereumChain" THEN switchResolved(at)
    ELSE addResolved(at)

\* The step is one in which the call in slot i, suspended on `method`, goes on.
Resumes(i, method) == attempts[i].pc = method /\ attempts'[i] # attempts[i]

\* C11: a connectWallet() call made while an earlier call is suspended at a
\* request to the provider sends no second eth_requestAccounts.
C11_OneAuthorizationPrompt ==
    [][InProgress # {} => \A i \in Slots : ~Calls(i)]_allvars

\* C12: in every reachable state the address is bound exactly when the status
\* is Connected: never bound while the status is Disconnected, Connecting or
\* Error, never null while it is Connected, whatever the order of the
\* mount-time check, the connectWallet and disconnectWallet calls and the
\* provider's events.
C12_AddressIffConnected ==
    /\ address # Null <=> "Connected" \in Statuses
    /\ address # Null => Statuses = {"Connected"}

\* What does hold: the address is bound exactly when isConnected is set.
C12_AddressWithFlag == address # Null <=> isConnected

\* C13: an accountsChanged event with an empty account list, in whatever state
\* it is received, leaves status Disconnected, no address and no wallet client.
C13_EmptyAccountsDisconnect ==
    Subscribed =>
        LET after == Batch(Cells, handleAccountsChanged(<<>>, handlerAddress,
                                                        selectProvider(ethereum)))
        IN  /\ StatusesOf(after) = {"Disconnected"}
            /\ after.address = Null
            /\ after.walletClient = NoClient

\* C14: disconnectWallet(), from whatever state it is called in, clears the
\* address, the wallet client, the connected flag and the error, leaves status
\* Disconnected, and called again changes nothing more.
C14_DisconnectClearsAll ==
    mounted =>
        LET once == Batch(Cells, disconnectWallet)
            twice == Batch(once, disconnectWallet)
        IN  /\ once.address = Null
            /\ once.walletClient = NoClient
            /\ ~once.isConnected
            /\ once.error = NoError
            /\ StatusesOf(once) = {"Disconnected"}
            /\ twice = once

\* Several providers were injected.
Several == ethereum.kind = "array" \/ ethereum.hasProviders

\* C15: with several injected providers, the mount-time check, every
\* connectWallet() call and every wallet client (those made by the event
\* handler included) use the first provider of the list.
C15_FirstProviderEverywhere ==
    Several =>
        /\ check.pc # "none" => check.provider = ethereum.list[1]
        /\ \A i \in InProgress : attempts[i].provider = ethereum.list[1]
        /\ walletClient # NoClient => walletClient.transport = ethereum.list[1]

\* Several providers, and a connectWallet() call has connected through the first.
C15_Witness ==
    /\ Several
    /\ Len(ethereum.list) > 1
    /\ isConnected
    /\ verified
    /\ walletClient.transport = ethereum.list[1]

\* C16, as stated: with no provider, connectWallet() fails with
\* NoProviderAvailable, never sets isConnecting to true and sends no request.
C16_NeverSetConnecting ==
    (mounted /\ ethereum.kind = "undefined") =>
        LET r == connectWallet(ethereum)
        IN  /\ r.outcome = "failed"
            /\ Batch(Cells, r.calls).error = NoProviderAvailable
            /\ r.at.sent = <<>>
            /\ \A k \in 1..Len(r.calls) :
                  ~(r.calls[k].cell = "isConnecting" /\ r.calls[k].value = TRUE)

\* C16, amended: with no provider, connectWallet() fails with
\* NoProviderAvailable and sends no request; isConnecting is false when it
\* returns, so that no state of the connector has a call in progress, a
\* request pending or isConnecting true.
C16_NoProviderFails ==
    ethereum.kind = "undefined" =>
        /\ ~isConnecting
        /\ InProgress = {}
        /\ check.pc # "eth_accounts"
        /\ mounted =>
              LET r == connectWallet(ethereum)
              IN  /\ r.outcome = "failed"
                  /\ Batch(Cells, r.calls).error = NoProviderAvailable
                  /\ ~Batch(Cells, r.calls).isConnecting
                  /\ r.at.sent = <<>>

\* No provider, and a connectWallet() call has failed.
C16_Witness == ethereum.kind = "undefined" /\ error = NoProviderAvailable

\* The rejections that carry the user-rejected signal, and the unknown-network one.
UserRejections == { err \in ProviderErrors : err.code = 4001 }
UnknownNetwork == { err \in ProviderErrors : err.code = 4902 }

\* How many times a call has sent `method`.
Sent(at, method) == Cardinality({ k \in 1..Len(at.sent) : at.sent[k] = method })

\* C17: when eth_requestAccounts is rejected with code 4001, in whatever state
\* the connector is, the call fails and sends nothing more, the error is the
\* user-cancelled message, no address is bound and the status is Error.
C17_RejectionLeavesNoAddress ==
    \A i \in Slots, err \in UserRejections :
        Awaits(i, "eth_requestAccounts") =>
            LET r == accountsRejected(attempts[i], err)
                after == Batch(Cells, r.calls)
            IN  /\ r.outcome = "failed"
                /\ r.at.pc = "none"
                /\ after.error = UserRejectedConnection
                /\ after.address = Null
                /\ ~after.isConnected
                /\ StatusesOf(after) = {"Error"}

\* C18: a call whose wallet_switchEthereumChain is rejected with code 4902
\* sends wallet_addEthereumChain; when that succeeds the call sends
\* wallet_switchEthereumChain once more, and only then connects; no call sends
\* the switch more than twice.
C18_AddThenSwitchOnce ==
    \A i \in Slots :
        /\ Sent(attempts[i], "wallet_switchEthereumChain") <= 2
        /\ Awaits(i, "wallet_switchEthereumChain") =>
              \A err \in UnknownNetwork :
                  Sent(attempts[i], "wallet_switchEthereumChain") = 1 =>
                      switchRejected(attempts[i], err).at.pc = "wallet_addEthereumChain"
        /\ Awaits(i, "wallet_addEthereumChain") =>
              LET r == addResolved(attempts[i])
              IN  /\ r.outcome = "suspended"
                  /\ r.at.pc = "wallet_switchEthereumChain"
                  /\ Sent(r.at, "wallet_switchEthereumChain") = 2

\* C19: whenever the status is Connected, a call has read the chain id and
\* found it the expected one, or had its switch or add request granted, since
\* the connector was last Disconnected.
C19_ConnectedOnlyVerified == "Connected" \in Statuses => verified

\* The step is the delivery of a chainChanged event: reload() is called.
ReloadCalled == ~reloading /\ reloading'

\* The step is the unloading of the document that called reload().
Reloads == mounted /\ ~mounted'

\* C20: a chainChanged event invalidates the connectWallet() calls suspended
\* when it arrives: a call that was suspended then and resumes with a
\* successful answer binds no address and does not set isConnected.  The
\* reload it causes leaves the connector Disconnected with nothing bound and
\* no call to resume, and a new connection is required: whatever the
\* provider answers to the mount-time check of the reloaded page, no address
\* is bound without a connectWallet() call.
C20_ChainChangedInvalidates ==
    [][/\ ReloadCalled =>
             \A i \in Slots :
                 attempts'[i].pc \in {"eth_chainId", "wallet_switchEthereumChain",
                                      "wallet_addEthereumChain"} =>
                     LET calls == Succeeds(attempts'[i]).calls
                     IN  \A k \in 1..Len(calls) :
                             calls[k].cell \notin {"address", "walletClient", "isConnected"}
       /\ Reloads =>
             /\ Statuses' = {"Disconnected"}
             /\ address' = Null
             /\ walletClient' = NoClient
             /\ InProgress' = {}
             /\ check'.pc = "none"
             /\ \A accounts \in AccountLists :
                    LET after == Batch(Cells', checkResolved(accounts, selectProvider(ethereum')))
                    IN  after.address = Null /\ ~after.isConnected]_allvars

\* The part about the call cut short, alone.
C20_InterruptedCallBindsNothing ==
    [][ReloadCalled =>
           \A i \in Slots :
               attempts'[i].pc \in {"eth_chainId", "wallet_switchEthereumChain",
                                    "wallet_addEthereumChain"} =>
                   LET calls == Succeeds(attempts'[i]).calls
                   IN  \A k \in 1..Len(calls) :
                           calls[k].cell \notin {"address", "walletClient", "isConnected"}]_allvars

\* What does hold: the unloading leaves a freshly loaded page.
C20_UnloadResets ==
    [][Reloads =>
          /\ Statuses' = {"Disconnected"}
          /\ address' = Null
          /\ walletClient' = NoClient
          /\ InProgress' = {}
          /\ check'.pc = "none"]_allvars

\* C21: while the status is Connected, an accountsChanged event with a
\* non-empty list whose first account is not the bound address binds the
\* address and the wallet client to that account, leaves the status Connected
\* and never sets isConnecting; an event whose first account is the bound
\* address changes no cell.
C21_AccountChangeRebinds ==
    (Subscribed /\ "Connected" \in Statuses) =>
        \A accounts \in AccountLists \ { <<>> } :
            LET calls == handleAccountsChanged(accounts, handlerAddress,
                                               selectProvider(ethereum))
                after == Batch(Cells, calls)
            IN  IF accounts[1] # address
                THEN /\ after.address = accounts[1]
                     /\ after.walletClient = WalletClient(accounts[1], selectProvider(ethereum))
                     /\ "Connected" \in StatusesOf(after)
                     /\ after.isConnecting = isConnecting
                     /\ \A k \in 1..Len(calls) : calls[k].cell # "isConnecting"
                ELSE after = Cells

(***************************************************************************)
(* connectWallet has no timer: a call goes on only when the provider       *)
(* answers its request.  SpecWalletFair adds the premise that the provider *)
(* answers every request it is sent.                                       *)
(***************************************************************************)
\* The provider answers the request of the call in slot i.
Answers(i) ==
    \/ \E accounts \in AccountLists : AccountsResolve(i, accounts)
    \/ \E err \in ProviderErrors : AccountsReject(i, err)
    \/ \E chainId \in ChainIds : ChainIdResolves(i, chainId)
    \/ ChainIdRejects(i)
    \/ SwitchResolves(i)
    \/ \E err \in ProviderErrors : SwitchRejects(i, err)
    \/ AddResolves(i)
    \/ \E err \in ProviderErrors : AddRejects(i, err)

SpecWalletFair ==
    WalletInit /\ [][WalletNext]_allvars /\ \A i \in Slots : WF_allvars(Answers(i))

\* C24, the part on answered requests: when the provider answers every
\* request, every connectWallet() call returns.
C24_AnsweredCallReturns ==
    \A i \in Slots : (attempts[i].pc # "none") ~> (attempts[i].pc = "none")

\* C24, the part on how a call ends: the step in which a call returns sets
\* isConnecting to false and leaves the account bound or the error set.
C24_CallEndsConnectedOrFailed ==
    [][\A i \in Slots :
          (attempts[i].pc # "none" /\ attempts'[i].pc = "none" /\ mounted') =>
              /\ ~isConnecting'
              /\ isConnected' \/ error' # NoError]_allvars

\* C24, the part on a request that is not answered: as long as a
\* connectWallet() call is suspended at a request, isConnecting is true.
C24_SuspendedCallKeepsConnecting == InProgress # {} => isConnecting

\* C25: when disconnectWallet() runs, called directly or by an accountsChanged
\* event with an empty list, while a connectWallet() call is suspended, and
\* that call then resumes and succeeds, no address is bound and the connector
\* is not Connected.
C25_DisconnectNotUndone ==
    \A i \in Slots :
        (mounted /\ attempts[i].pc \in {"eth_chainId", "wallet_switchEthereumChain",
                                        "wallet_addEthereumChain"}) =>
            LET cleared == Batch(Cells, disconnectWallet)
                viaEvent == Batch(Cells, handleAccountsChanged(<<>>, handlerAddress,
                                                               selectProvider(ethereum)))
                resumed == Batch(cleared, Succeeds(attempts[i]).calls)
            IN  /\ viaEvent = cleared
                /\ Succeeds(attempts[i]).outcome = "connected"
                /\ resumed.address = Null
                /\ resumed.walletClient = NoClient
                /\ ~resumed.isConnected
                /\ "Connected" \notin StatusesOf(resumed)

====
